---- MODULE Spec2Model ----
(***************************************************************************)
(* Streaming session supervisor of tipsunixlive.                           *)
(*                                                                         *)
(* The model covers the live_sessions table, the in-memory registry of    *)
(* FFmpegService (active_processes), the operating-system encoder          *)
(* processes, the start paths (manual, re-live, scheduled fire, broadcast  *)
(* auto-start), Stop, the watcher thread of FFmpegService (_monitor_loop), *)
(* the asyncio health monitor (health_monitor_loop) and its delayed        *)
(* restart tasks (delayed_restart).                                        *)
(*                                                                         *)
(* Time is wall-clock seconds.  The specifications share the actions:      *)
(*   Spec   one session, every thread and task; a sleep may end at any     *)
(*          moment after it began (no assumption on relative speeds);      *)
(*   SpecA  several sessions and concurrent start requests, without the    *)
(*          watcher thread; sleeps as in Spec;                             *)
(*   SpecT  one session, every thread and task; a clock `now` advances,    *)
(*          every sleep lasts exactly its duration and the health monitor  *)
(*          ticks every TickInterval;                                      *)
(*   SpecM  SpecA with the scoped stops, the orphan cleanup and a restart  *)
(*          of the application (cleanup_zombie_sessions);                  *)
(*   SpecS  the scheduler (LiveSchedulerService): schedule, cancel, the    *)
(*          APScheduler job and its fire, key activation, next to manual   *)
(*          starts and stops, on one session row;                          *)
(*   SpecK  the fires of the scheduler next to manual starts and stops on  *)
(*          several session rows, the keys staying active;                 *)
(*   SpecB  SpecS with a restart of the application;                       *)
(*   SpecW  SpecA on one session row with a restart of the application,    *)
(*          under fair scheduling of the health monitor and of the delayed *)
(*          restarts;                                                      *)
(*   SpecV  one call of a request validation or of a manifest builder, on  *)
(*          every input within the bounds;                                 *)
(*   SpecL  SpecA on one session row, with start requests that may ask for *)
(*          no loop;                                                       *)
(*   SpecF  Spec with the restart of the watcher thread taken in two       *)
(*          steps, the test of the registry and the spawn;                 *)
(*   SpecR  SpecT for manual starts without the watcher thread, with the   *)
(*          rotation of the stream key.                                    *)
(***************************************************************************)
EXTENDS Integers, Sequences, FiniteSets, TLC

\* ------------------------------------------------------------------ bounds
MaxSessions == 2        \* rows of live_sessions in SpecA
MaxSoloSessions == 1    \* rows of live_sessions in Spec and SpecT
MaxReq == 2             \* start requests made in one behaviour of Spec and SpecA
MaxTimedReq == 1        \* start requests made in one behaviour of SpecT
NumKeys == 2            \* operator-registered stream keys
MaxPids == 3            \* encoder processes ever spawned in Spec and SpecA
MaxTimedPids == 4       \* encoder processes ever spawned in SpecT
MaxRotatePids == 2      \* encoder processes ever spawned in SpecR
MaxPaths == 2           \* paths in a list handed to a manifest builder
MaxNameLen == 2         \* characters of a file name
MaxMaintPids == 2       \* encoder processes ever spawned in SpecM
MaxTriggers == 2        \* rows of scheduled_lives
MaxScheduleCalls == 1   \* schedule requests made in one behaviour
MaxHours == 1           \* largest max_duration_hours offered
JumpSlack == 2          \* how many TimeUnits before a deadline the clock may stop
MaxAdvance == 4         \* clock advances in one behaviour of SpecT
\* The deployment setting MAX_CONCURRENT_STREAMS (environment variable,
\* default 10), set low enough for the start paths to reach it.
MAX_CONCURRENT_STREAMS == 1

\* ------------------------------------------------------- program constants
MAX_RETRIES == 5
TickInterval == 10
WatcherBase == 5
SecondsPerHour == 3600
StableUptime == 3600
TimeUnit == WatcherBase \* the shortest sleep: instants are multiples of it

backoff_delays == <<5, 30, 120, 300, 600>>

DayLen == 24 * SecondsPerHour       \* timedelta(days=1)
WeekLen == 7 * DayLen               \* timedelta(weeks=1)
TzOffset == 8 * SecondsPerHour      \* a caller's UTC offset (UTC+8)
Recurrences == {"none", "daily", "weekly"}

NULL == 0 - 1           \* a null timestamp
NoPid == 0              \* a null ffmpeg_pid
NoEntry == [pid |-> NoPid, retry_count |-> 0, started_at |-> NULL, loop |-> TRUE]

Keys == 1 .. NumKeys
SessionIds == 1 .. MaxSessions
TriggerIds == 1 .. MaxTriggers
Reqs == 1 .. MaxReq
Hours == 0 .. MaxHours
Kinds == {"manual", "relive", "scheduled", "broadcast"}
ActiveStatuses == {"starting", "running", "recovering"}

VARIABLES
    cfg,        \* the scenario: sleeps measured against `now`?  how many rows, pids?
    now,        \* wall clock, seconds
    advances,   \* clock advances so far
    sessions,   \* table live_sessions: sequence of rows, index = id
    registry,   \* FFmpegService.active_processes: session id -> entry
    procs,      \* encoder processes ever spawned: pid -> owning session id
    alive,      \* pids of encoder processes that are running
    reqs,       \* start requests (HTTP handlers / scheduler jobs) in flight
    hm,         \* health_monitor_loop: position, snapshot, next tick
    drTasks,    \* delayed_restart tasks created by the health monitor
    watcher,    \* FFmpegService._monitor_loop thread
    hist,       \* per session: time of the last crash, restarts launched
    call,       \* one call of a validation or of a manifest builder
    leaked,     \* sessions with a concat file on disk that no registry entry holds
    swept,      \* sessions in the scope of a stop-all / stop-by-key that returned
    triggers,   \* table scheduled_lives: sequence of rows, index = id
    jobs,       \* ids of the triggers that hold a job in the APScheduler job store
    fires,      \* _execute_scheduled_live runs: trigger id -> position
    keyActive   \* table stream_keys: key id -> is_active

schedVars == <<triggers, jobs, fires, keyActive>>

progVars == <<cfg, now, advances, sessions, registry, procs, alive, reqs, hm,
              drTasks, watcher, hist, leaked, swept, triggers, jobs, fires,
              keyActive>>
vars == <<cfg, call, now, advances, sessions, registry, procs, alive, reqs, hm,
          drTasks, watcher, hist, leaked, swept, triggers, jobs, fires,
          keyActive>>

\* ------------------------------------------------------------------ helpers
SetMin(S) == CHOOSE x \in S : \A y \in S : x <= y

Pow2(n) == IF n <= 0 THEN 1
           ELSE IF n = 1 THEN 2
           ELSE IF n = 2 THEN 4
           ELSE IF n = 3 THEN 8
           ELSE IF n = 4 THEN 16
           ELSE 32

Ids == 1 .. Len(sessions)

timed == cfg.timed
SessLimit == cfg.rows
PidLimit == cfg.pids
DurationChoices == IF timed THEN Hours ELSE {0}

\* The loop flag a start request may carry.
LoopChoices == IF cfg.loops THEN BOOLEAN ELSE {TRUE}

\* A sleep that ends at t has ended.
Due(t) == timed => now >= t

\* LiveSession.get_duration_seconds for a row whose end_time the caller sees as e
get_duration_seconds(s, e) ==
    IF sessions[s].start_time = NULL THEN 0
    ELSE (IF e = NULL THEN now ELSE e) - sessions[s].start_time

\* FFmpegService.is_process_running(session_id) with no pid argument
is_process_running(s) ==
    /\ registry[s] # NoEntry
    /\ registry[s].pid \in alive

\* FFmpegService.stop_stream: the registry and the processes after it
stop_stream_registry(reg, s) == [reg EXCEPT ![s] = NoEntry]
stop_stream_alive(reg, al, s) ==
    IF reg[s] = NoEntry THEN al ELSE al \ {reg[s].pid}

\* FFmpegService.stop_stream: its return value, True for success
stop_stream_returns(reg, s) == reg[s] # NoEntry

\* StreamControlService._kill_ffmpeg_process
kill_ffmpeg_process(al, pid) == al \ {pid}

\* FFmpegService.cleanup_dead_processes: stop_stream on every dead entry
cleanup_dead_processes(reg, al) ==
    [s \in SessionIds |->
        IF reg[s] # NoEntry /\ reg[s].pid \notin al THEN NoEntry ELSE reg[s]]

\* FFmpegService.get_last_error: whatever the tail of the log yields
get_last_error == "captured"

\* the registry entry start_stream writes for a fresh process
NewEntry(pid, loop) ==
    [pid |-> pid, retry_count |-> 0, started_at |-> now, loop |-> loop]

\* the admission queries of the start paths
KeyInUse(k) == \E s \in Ids : sessions[s].key = k /\ sessions[s].status = "running"
total_active == Cardinality({s \in Ids : sessions[s].status = "running"})

IdleReq == [pc |-> "idle", kind |-> "manual", key |-> 0, maxh |-> 0,
            sid |-> 0, pid |-> NoPid, result |-> "none", rival |-> 0,
            free |-> TRUE]

\* A trigger whose job has not run.
IdleFire == [pc |-> "idle", sid |-> 0, was |-> "none"]

WatcherIdle == [pc |-> "poll", sid |-> 0, due |-> 0, old_retry |-> 0,
                loop |-> TRUE, crash |-> NULL, oserr |-> FALSE]

\* ------------------------------------------- request rows, manifest text
\* Strings are sequences of characters.
Modes == {"single", "playlist", "random"}
AssetIds == {NULL, 0, 1}        \* None, and ids as the request carries them
NameChars == {"a", "'"}
Names == UNION {[1 .. n -> NameChars] : n \in 1 .. MaxNameLen}
Paths == Names \cup {<<"/">> \o n : n \in Names}
PathLists == UNION {[1 .. n -> Paths] : n \in 1 .. MaxPaths}

NoRow == [mode |-> "none", video_id |-> NULL, playlist_id |-> NULL]
NoCall == [op |-> "none", mode |-> "none", video_id |-> NULL, playlist_id |-> NULL,
           paths |-> <<>>, done |-> FALSE, row |-> NoRow, text |-> <<>>]
RowCalls == {[NoCall EXCEPT !.op = o, !.mode = m, !.video_id = v, !.playlist_id = p] :
                o \in {"start_manual_live", "schedule_live"},
                m \in Modes, v \in AssetIds, p \in AssetIds}
ManifestCalls == {[NoCall EXCEPT !.op = o, !.paths = ps] :
                o \in {"_create_concat_file", "create_concat_file"}, ps \in PathLists}

\* Python truth value of an Optional[int]
truthy(x) == x # NULL /\ x # 0

\* start_manual_live, lines 87-96: the HTTPException(400) tests
start_manual_live_valid(mode, video_id, playlist_id) ==
    /\ mode \in {"single", "playlist"}
    /\ mode = "single" => truthy(video_id)
    /\ mode = "playlist" => truthy(playlist_id)

\* schedule_live, lines 72-77: the ValueError tests on video and playlist
schedule_live_asset_valid(mode, video_id, playlist_id) ==
    /\ mode = "single" => truthy(video_id)
    /\ mode = "playlist" => truthy(playlist_id)

\* LiveSession(...) of start_manual_live and ScheduledLive(...) of
\* schedule_live: both ids are stored as they came.
new_row(mode, video_id, playlist_id) ==
    [mode |-> mode, video_id |-> video_id, playlist_id |-> playlist_id]

\* str.replace(old, new) for a one-character old
RECURSIVE str_replace(_, _, _)
str_replace(str, old, new) ==
    IF str = <<>> THEN <<>>
    ELSE (IF Head(str) = old THEN new ELSE <<Head(str)>>) \o str_replace(Tail(str), old, new)

\* os.path.abspath for a file name or an absolute path; the working
\* directory is /w.
cwd == <<"/", "w">>
abspath(path) == IF Head(path) = "/" THEN path ELSE cwd \o <<"/">> \o path

\* f"file '{escaped_path}'\n"
concat_line(escaped_path) ==
    <<"f", "i", "l", "e", " ", "'">> \o escaped_path \o <<"'", "\n">>

\* abs_path.replace("'", "'\\''")
escape_quotes(abs_path) == str_replace(abs_path, "'", <<"'", "\\", "'", "'">>)

\* FFmpegService._create_concat_file skipping a path it has written already.
RECURSIVE ffmpeg_create_concat_file_unique(_)
ffmpeg_create_concat_file_unique(video_paths) ==
    IF video_paths = <<>> THEN <<>>
    ELSE LET n == Len(video_paths)
             last == video_paths[n]
             before == SubSeq(video_paths, 1, n - 1)
         IN ffmpeg_create_concat_file_unique(before) \o
            (IF \E i \in 1 .. n - 1 : video_paths[i] = last THEN <<>>
             ELSE concat_line(escape_quotes(abspath(last))))

\* FFmpegService._create_concat_file: the text written, one write per path
RECURSIVE ffmpeg_create_concat_file(_)
ffmpeg_create_concat_file(video_paths) ==
    IF video_paths = <<>> THEN <<>>
    ELSE concat_line(escape_quotes(abspath(Head(video_paths))))
            \o ffmpeg_create_concat_file(Tail(video_paths))

\* StreamService.create_concat_file: backslashes become slashes first
RECURSIVE create_concat_file(_)
create_concat_file(video_paths) ==
    IF video_paths = <<>> THEN <<>>
    ELSE concat_line(escape_quotes(str_replace(abspath(Head(video_paths)), "\\", <<"/">>)))
            \o create_concat_file(Tail(video_paths))

\* The lines of a text: what precedes each newline.
RECURSIVE text_lines(_, _)
text_lines(text, line) ==
    IF text = <<>> THEN (IF line = <<>> THEN <<>> ELSE <<line>>)
    ELSE IF Head(text) = "\n" THEN <<line>> \o text_lines(Tail(text), <<>>)
    ELSE text_lines(Tail(text), Append(line, Head(text)))

\* The token FFmpeg's concat demuxer reads from the rest of a line: inside
\* single quotes every character is literal, outside them a backslash makes
\* the next character literal.
RECURSIVE av_get_token(_, _)
av_get_token(str, quoted) ==
    IF str = <<>> THEN <<>>
    ELSE IF Head(str) = "'" THEN av_get_token(Tail(str), ~quoted)
    ELSE IF ~quoted /\ Head(str) = "\\" /\ Len(str) > 1
         THEN <<str[2]>> \o av_get_token(Tail(Tail(str)), quoted)
    ELSE <<Head(str)>> \o av_get_token(Tail(str), quoted)

\* The path a manifest line names; <<>> for a line that is no `file` line.
line_path(line) ==
    IF Len(line) > 5 /\ SubSeq(line, 1, 5) = <<"f", "i", "l", "e", " ">>
    THEN av_get_token(SubSeq(line, 6, Len(line)), FALSE)
    ELSE <<>>

\* POST /live/manual up to the insert of the row: refused, or the row.
StartManualLiveRow ==
    /\ call.op = "start_manual_live" /\ ~call.done
    /\ call' = [call EXCEPT !.done = TRUE,
                  !.row = IF start_manual_live_valid(call.mode, call.video_id, call.playlist_id)
                          THEN new_row(call.mode, call.video_id, call.playlist_id)
                          ELSE NoRow]
    /\ UNCHANGED progVars

\* LiveSchedulerService.schedule_live up to the insert of the row.
ScheduleLiveRow ==
    /\ call.op = "schedule_live" /\ ~call.done
    /\ call' = [call EXCEPT !.done = TRUE,
                  !.row = IF schedule_live_asset_valid(call.mode, call.video_id, call.playlist_id)
                          THEN new_row(call.mode, call.video_id, call.playlist_id)
                          ELSE NoRow]
    /\ UNCHANGED progVars

\* FFmpegService._create_concat_file(video_paths, session_id)
FFmpegCreateConcatFile ==
    /\ call.op = "_create_concat_file" /\ ~call.done
    /\ call' = [call EXCEPT !.done = TRUE, !.text = ffmpeg_create_concat_file(call.paths)]
    /\ UNCHANGED progVars

\* StreamService.create_concat_file(video_paths)
CreateConcatFile ==
    /\ call.op = "create_concat_file" /\ ~call.done
    /\ call' = [call EXCEPT !.done = TRUE, !.text = create_concat_file(call.paths)]
    /\ UNCHANGED progVars

\* ------------------------------------------------------------------- Init
InitProgram ==
    /\ now = 0
    /\ advances = 0
    /\ sessions = <<>>
    /\ registry = [s \in SessionIds |-> NoEntry]
    /\ procs = <<>>
    /\ alive = {}
    /\ reqs = [r \in Reqs |-> IdleReq]
    /\ hm = [pc |-> "sleep", snap |-> {}, nextTick |-> 0]
    /\ drTasks = {}
    /\ watcher = WatcherIdle
    /\ leaked = {}
    /\ swept = {}
    /\ triggers = <<>>
    /\ jobs = {}
    /\ fires = [t \in TriggerIds |-> IdleFire]
    /\ keyActive = [k \in Keys |-> TRUE]
    /\ hist = [s \in SessionIds |-> [crashAt |-> NULL, launched |-> 0, answered |-> NULL,
                                   oserr |-> FALSE, loop |-> TRUE]]

InitCommon ==
    /\ call = NoCall
    /\ InitProgram

Init ==
    /\ cfg = [timed |-> FALSE, loops |-> FALSE, rows |-> MaxSoloSessions, reqs |-> MaxReq, pids |-> MaxPids]
    /\ InitCommon
InitA ==
    /\ cfg = [timed |-> FALSE, loops |-> FALSE, rows |-> MaxSessions, reqs |-> MaxReq, pids |-> MaxPids]
    /\ InitCommon
InitM ==
    /\ cfg = [timed |-> FALSE, loops |-> FALSE, rows |-> MaxSessions, reqs |-> MaxReq, pids |-> MaxMaintPids]
    /\ InitCommon
InitS ==
    /\ cfg = [timed |-> FALSE, loops |-> FALSE, rows |-> MaxSoloSessions, reqs |-> MaxTimedReq, pids |-> MaxMaintPids]
    /\ InitCommon
InitK ==
    /\ cfg = [timed |-> FALSE, loops |-> FALSE, rows |-> MaxSessions, reqs |-> MaxTimedReq, pids |-> MaxMaintPids]
    /\ InitCommon
InitB ==
    /\ cfg = [timed |-> FALSE, loops |-> FALSE, rows |-> MaxSoloSessions, reqs |-> MaxTimedReq, pids |-> MaxMaintPids]
    /\ InitCommon
InitR ==
    /\ cfg = [timed |-> TRUE, loops |-> FALSE, rows |-> MaxSoloSessions, reqs |-> MaxTimedReq, pids |-> MaxRotatePids]
    /\ InitCommon
InitL ==
    /\ cfg = [timed |-> FALSE, loops |-> TRUE, rows |-> MaxSoloSessions, reqs |-> MaxReq, pids |-> MaxPids]
    /\ InitCommon
InitV ==
    /\ cfg = [timed |-> FALSE, loops |-> FALSE, rows |-> MaxSoloSessions, reqs |-> MaxReq, pids |-> MaxPids]
    /\ call \in RowCalls \cup ManifestCalls
    /\ InitProgram
InitW ==
    /\ cfg = [timed |-> FALSE, loops |-> FALSE, rows |-> MaxSoloSessions, reqs |-> MaxTimedReq, pids |-> MaxMaintPids]
    /\ InitCommon
InitT ==
    /\ cfg = [timed |-> TRUE, loops |-> FALSE, rows |-> MaxSoloSessions, reqs |-> MaxTimedReq, pids |-> MaxTimedPids]
    /\ InitCommon

\* ------------------------------------------------------------ start paths
\* Requests that passed admission and have not inserted their row yet.
Admitted == {r \in Reqs : reqs[r].pc = "admitted"}

\* Slot r is the next unused one: every request is made once.
NextSlot(r) ==
    /\ r <= cfg.reqs
    /\ reqs[r].pc = "idle"
    /\ \A q \in 1 .. r - 1 : reqs[q].pc # "idle"

\* A request on key k overlaps request q when q is in flight on the same key.
InFlight(q) == reqs[q].pc \in {"admitted", "created", "spawned"}
RivalOf(r, k) ==
    IF \E q \in Reqs \ {r} : InFlight(q) /\ reqs[q].key = k
    THEN CHOOSE q \in Reqs \ {r} : InFlight(q) /\ reqs[q].key = k
    ELSE 0

\* No session other than those of requests in flight is active on key k.
KeyFree(k) ==
    \A s \in Ids :
        (sessions[s].key = k /\ sessions[s].status \in ActiveStatuses)
            => \E q \in Reqs : reqs[q].pc \in {"created", "spawned"} /\ reqs[q].sid = s

\* The outcome of the two admission queries (live.py 142-167,
\* live_scheduler_service.py 156-184, relive.py 83-106).
Admission(k) ==
    IF ~keyActive[k] THEN "InactiveKey"
    ELSE IF KeyInUse(k) THEN "KeyBusy"
    ELSE IF total_active >= MAX_CONCURRENT_STREAMS THEN "CapacityExhausted"
    ELSE "ok"

\* The request table after request r has run the admission queries.
AdmitReqs(r, kind, k, h) ==
    LET verdict == Admission(k)
        rival == RivalOf(r, k)
        mine == [pc |-> IF verdict = "ok" /\ kind # "relive" THEN "admitted" ELSE "done",
                 kind |-> kind, key |-> k, maxh |-> h, sid |-> 0,
                 pid |-> NoPid,
                 result |-> IF verdict # "ok" THEN verdict
                            ELSE IF kind = "relive" THEN "error" ELSE "none",
                 rival |-> rival, free |-> KeyFree(k)]
    IN [q \in Reqs |->
           IF q = r THEN mine
           ELSE IF q = rival THEN [reqs[q] EXCEPT !.rival = r]
           ELSE reqs[q]]

\* A start path that inserts its row before it runs the admission queries.
StartAdmitInsertsFirst(r, kind, k, h) ==
    /\ kind \in {"manual", "relive", "scheduled"}
    /\ NextSlot(r)
    /\ Len(sessions) + Cardinality(Admitted) < SessLimit
    /\ reqs' = AdmitReqs(r, kind, k, h)
    /\ sessions' = IF Admission(k) = "ok" THEN sessions
                   ELSE Append(sessions,
                          [key |-> k, status |-> "failed", pid |-> NoPid,
                           start_time |-> now, end_time |-> NULL,
                           restart_count |-> 0, last_error |-> "none",
                           max_duration_hours |-> h])
    /\ UNCHANGED <<cfg, call, schedVars, swept, leaked, now, advances, registry, procs, alive, hm,
                   drTasks, watcher, hist>>

\* start_manual_live, start_relive and _execute_scheduled_live up to the
\* admission queries.  start_relive then reads request.max_duration_hours,
\* a field ReLiveRequest does not have, and ends with an error.
StartAdmit(r, kind, k, h) ==
    /\ kind \in {"manual", "relive", "scheduled"}
    /\ NextSlot(r)
    /\ Admission(k) = "ok" /\ kind # "relive"
            => Len(sessions) + Cardinality(Admitted) < SessLimit
    /\ reqs' = AdmitReqs(r, kind, k, h)
    /\ UNCHANGED <<cfg, call, schedVars, swept, leaked, now, advances, sessions, registry, procs, alive, hm,
                   drTasks, watcher, hist>>

\* create_live_setup with source_mode set and timing_mode = 'now': a new
\* StreamKey row is saved and the session is created with no admission query.
StartBroadcast(r, h) ==
    /\ NextSlot(r)
    /\ Len(sessions) + Cardinality(Admitted) < SessLimit
    /\ reqs' = [reqs EXCEPT ![r] =
                    [pc |-> "admitted", kind |-> "broadcast", key |-> 0,
                     maxh |-> h, sid |-> 0, pid |-> NoPid, result |-> "none",
                     rival |-> 0, free |-> TRUE]]
    /\ UNCHANGED <<cfg, call, schedVars, swept, leaked, now, advances, sessions, registry, procs, alive, hm,
                   drTasks, watcher, hist>>

\* db.add(LiveSession(status='starting', ...)); db.commit()
CreateSession(r) ==
    /\ reqs[r].pc = "admitted"
    /\ LET sid == Len(sessions) + 1
           k == IF reqs[r].kind = "broadcast" THEN NumKeys + sid ELSE reqs[r].key
       IN /\ sessions' = Append(sessions,
                [key |-> k, status |-> "starting", pid |-> NoPid,
                 start_time |-> now, end_time |-> NULL, restart_count |-> 0,
                 last_error |-> "none", max_duration_hours |-> reqs[r].maxh])
          /\ reqs' = [reqs EXCEPT ![r].pc = "created", ![r].sid = sid, ![r].key = k]
    /\ UNCHANGED <<cfg, call, schedVars, swept, leaked, now, advances, registry, procs, alive, hm, drTasks, watcher, hist>>

\* start_stream(session_id, ...): the concat file is written, then Popen
\* either raises (the file stays, None is returned) or yields a process that
\* is registered.  With an entry already registered nothing is written.
start_stream_leaks(s, started) ==
    IF ~started /\ registry[s] = NoEntry THEN leaked \cup {s} ELSE leaked

\* ffmpeg_service.start_stream for the new session.  ok = FALSE: Popen
\* raises and start_stream returns None; the manual start then marks the
\* row failed, the scheduled fire and the broadcast auto-start leave it as
\* it is.
SpawnEncoder(r, ok) ==
    /\ reqs[r].pc = "created"
    /\ LET sid == reqs[r].sid
           pid == Len(procs) + 1
           started == ok /\ registry[sid] = NoEntry /\ Len(procs) < PidLimit
       IN /\ leaked' = start_stream_leaks(sid, started)
          /\ IF started
             THEN /\ procs' = Append(procs, sid)
                  /\ alive' = alive \cup {pid}
                  /\ \E loop \in LoopChoices :
                        /\ registry' = [registry EXCEPT ![sid] = NewEntry(pid, loop)]
                        /\ hist' = [hist EXCEPT ![sid].loop = loop]
                  /\ reqs' = [reqs EXCEPT ![r].pc = "spawned", ![r].pid = pid]
                  /\ UNCHANGED sessions
             ELSE /\ sessions' = IF reqs[r].kind \in {"manual", "relive"}
                                 THEN [sessions EXCEPT ![sid].status = "failed"]
                                 ELSE sessions
                  /\ reqs' = [reqs EXCEPT ![r].pc = "done",
                                          ![r].result = "spawn_failed"]
                  /\ UNCHANGED <<procs, alive, registry, hist>>
    /\ UNCHANGED <<cfg, call, schedVars, swept, now, advances, hm, drTasks, watcher>>

\* The write that follows a successful start_stream: the handler sets the
\* pid and status running on its own copy of the row and commits.
CommitStart(r) ==
    /\ reqs[r].pc = "spawned"
    /\ sessions' = [sessions EXCEPT ![reqs[r].sid].pid = reqs[r].pid,
                                    ![reqs[r].sid].status = "running"]
    /\ reqs' = [reqs EXCEPT ![r].pc = "done", ![r].pid = NoPid,
                            ![r].result = "started"]
    /\ UNCHANGED <<cfg, call, schedVars, swept, leaked, now, advances, registry, procs, alive, hm,
                   drTasks, watcher, hist>>

\* ------------------------------------------------------------------- stop
\* StreamControlService.stop_stream_by_session_id as seen by a caller whose
\* copy of the row says status `seen`: the rows, registry and processes after.
\* (StopRowsKeepsEndTime: a stop that marks the row without stamping end_time.)
StopRowsKeepsEndTime(s, seen) ==
    IF seen \in {"stopped", "failed"} THEN sessions
    ELSE [sessions EXCEPT ![s].status = "stopped"]

StopRows(s, seen) ==
    IF seen \in {"stopped", "failed"} THEN sessions
    ELSE [sessions EXCEPT ![s].status = "stopped", ![s].end_time = now]
StopRegistry(s, seen) ==
    IF seen \in {"stopped", "failed"} THEN registry
    ELSE stop_stream_registry(registry, s)
StopAlive(s, seen) ==
    IF seen \in {"stopped", "failed"} THEN alive
    ELSE stop_stream_alive(registry,
            IF sessions[s].pid # NoPid
            THEN kill_ffmpeg_process(alive, sessions[s].pid) ELSE alive, s)

\* POST /live/stop/{session_id}
Stop(s) ==
    /\ s \in Ids
    /\ sessions' = StopRows(s, sessions[s].status)
    /\ registry' = StopRegistry(s, sessions[s].status)
    /\ alive' = StopAlive(s, sessions[s].status)
    /\ UNCHANGED <<cfg, call, schedVars, swept, leaked, now, advances, procs, reqs, hm, drTasks, watcher, hist>>

\* stop_stream_by_session_id applied in turn to every session of S
StopEach(S) ==
    /\ sessions' = [s \in Ids |->
            IF s \in S THEN StopRows(s, sessions[s].status)[s] ELSE sessions[s]]
    /\ registry' = [s \in SessionIds |->
            IF s \in S THEN StopRegistry(s, sessions[s].status)[s] ELSE registry[s]]
    /\ alive' = {p \in alive : \A s \in S : p \in StopAlive(s, sessions[s].status)}

\* POST /live/stop-all: stop_all_active_streams
StopAll ==
    /\ StopEach({s \in Ids : sessions[s].status = "running"})
    /\ swept' = swept \cup Ids
    /\ UNCHANGED <<cfg, call, schedVars, leaked, now, advances, procs, reqs, hm, drTasks, watcher, hist>>

\* POST /live/stop-by-key/{stream_key_id}: stop_stream_by_stream_key_id
StopByKey(k) ==
    /\ StopEach({s \in Ids : sessions[s].key = k /\ sessions[s].status = "running"})
    /\ swept' = swept \cup {s \in Ids : sessions[s].key = k}
    /\ UNCHANGED <<cfg, call, schedVars, leaked, now, advances, procs, reqs, hm, drTasks, watcher, hist>>

\* ------------------------------------------------------- orphans and boot
\* force_cleanup_orphaned_processes: the processes left alive, given the rows
db_pids(rows) ==
    {rows[s].pid : s \in {x \in DOMAIN rows :
                            rows[x].pid # NoPid /\ rows[x].status = "running"}}
force_cleanup_orphaned_processes(rows, al) == al \cap db_pids(rows)

\* POST /live/cleanup-orphans
ForceReap ==
    /\ alive' = force_cleanup_orphaned_processes(sessions, alive)
    /\ UNCHANGED <<cfg, call, schedVars, swept, leaked, now, advances, sessions, registry, procs,
                   reqs, hm, drTasks, watcher, hist>>

\* cleanup_zombie_sessions, step 2: every running row becomes interrupted
mark_interrupted(rows) ==
    [s \in DOMAIN rows |->
        IF rows[s].status = "running"
        THEN [rows[s] EXCEPT !.status = "interrupted", !.end_time = now]
        ELSE rows[s]]

\* The application process dies and is started again: handlers, tasks and the
\* in-memory registry are gone, encoder processes and rows survive, and
\* startup_event runs cleanup_zombie_sessions before the health monitor.
Boot ==
    /\ reqs' = [r \in Reqs |->
            IF InFlight(r) THEN [reqs[r] EXCEPT !.pc = "done", !.result = "aborted"]
            ELSE reqs[r]]
    /\ registry' = [s \in SessionIds |-> NoEntry]
    /\ leaked' = leaked \cup {s \in SessionIds : registry[s] # NoEntry}
    /\ drTasks' = {}
    /\ hm' = [pc |-> "sleep", snap |-> {}, nextTick |-> now]
    /\ watcher' = WatcherIdle
    /\ alive' = force_cleanup_orphaned_processes(sessions, alive)
    /\ sessions' = mark_interrupted(sessions)
    /\ jobs' = {}
    /\ fires' = [t \in TriggerIds |-> IdleFire]
    /\ UNCHANGED <<cfg, call, swept, now, advances, procs, hist, triggers, keyActive>>

\* ------------------------------------------------------------ key rotation
\* StreamKeyRotationService.get_fallback_stream_key: the first active key
\* other than the current one that no running session uses; NULL for none.
get_fallback_stream_key(current) ==
    LET free == {k \in Keys : /\ k # current
                              /\ keyActive[k]
                              /\ ~\E s \in Ids : /\ sessions[s].status = "running"
                                                 /\ sessions[s].key = k}
    IN IF free = {} THEN NULL ELSE SetMin(free)

\* StreamKeyRotationService.rotate_stream_key for session s.  A row with a
\* pid is first put through stop_stream_by_session_id; the row then takes the
\* fallback key and status starting, and the encoder is started again.
\* `found` tells whether the video or playlist yields paths, `ok` whether the
\* operating system lets the process start.
Rotate(s, found, ok) ==
    /\ s \in Ids
    /\ get_fallback_stream_key(sessions[s].key) # NULL
    /\ LET seen == sessions[s].status
           stopping == sessions[s].pid # NoPid
           rows == IF stopping THEN StopRows(s, seen) ELSE sessions
           reg == IF stopping THEN StopRegistry(s, seen) ELSE registry
           al == IF stopping THEN StopAlive(s, seen) ELSE alive
           keyed == [rows EXCEPT ![s].key = get_fallback_stream_key(sessions[s].key),
                                 ![s].status = "starting"]
           pid == Len(procs) + 1
           started == found /\ ok /\ reg[s] = NoEntry /\ Len(procs) < PidLimit
       IN /\ leaked' = IF found /\ ~started /\ reg[s] = NoEntry
                       THEN leaked \cup {s} ELSE leaked
          /\ IF started
             THEN /\ procs' = Append(procs, s)
                  /\ alive' = al \cup {pid}
                  /\ registry' = [reg EXCEPT ![s] = NewEntry(pid, TRUE)]
                  /\ sessions' = [keyed EXCEPT ![s].pid = pid,
                                               ![s].status = "running",
                                               ![s].start_time = now]
             ELSE /\ sessions' = [keyed EXCEPT ![s].status = "failed"]
                  /\ registry' = reg
                  /\ alive' = al
                  /\ UNCHANGED procs
    /\ UNCHANGED <<cfg, call, schedVars, swept, now, advances, reqs, hm, drTasks, watcher, hist>>

\* -------------------------------------------------------------- scheduler
\* datetime.replace(tzinfo=None) on a time received as wall-clock fields and
\* a UTC offset: the offset is dropped, the fields stay.
replace_tzinfo_none(wall, offset) == wall

\* The instant, in UTC seconds, that wall-clock fields with an offset denote.
utc_instant(wall, offset) == wall - offset

\* Times a caller may ask for: an hour ago, in an hour (wall-clock fields).
ScheduleWalls == {now - SecondsPerHour, now + SecondsPerHour}
Offsets == {0, TzOffset}

TrigIds == 1 .. Len(triggers)

\* Another schedule request may be made.
MayAsk == Cardinality({t \in TrigIds : triggers[t].parent = 0}) < MaxScheduleCalls

\* LiveSchedulerService.schedule_live, past its validation: the row is
\* inserted pending and a DateTrigger job is added under its id.  `asked` is
\* the instant the caller meant and `parent` the trigger whose recurrence made
\* the call (0 for a call from a router); `cancelled_from` is the status a
\* successful cancel found.  None of the three is stored by the program.
schedule_live_rows(k, time, rec, h, asked, parent) ==
    Append(triggers,
           [key |-> k, scheduled_time |-> time, recurrence |-> rec,
            max_duration_hours |-> h, status |-> "pending",
            live_session_id |-> 0, error_message |-> "none",
            created_at |-> now, asked |-> asked, parent |-> parent,
            cancelled_from |-> "none"])
schedule_live_jobs == jobs \cup {Len(triggers) + 1}

\* schedule_live raises ValueError for a key that is not active.
schedule_live_valid(k) == keyActive[k]

\* POST /live/schedule
Schedule(k, wall, offset, rec) ==
    /\ Len(triggers) < MaxTriggers
    /\ MayAsk
    /\ schedule_live_valid(k)
    /\ triggers' = schedule_live_rows(k, replace_tzinfo_none(wall, offset), rec, 0,
                                      utc_instant(wall, offset), 0)
    /\ jobs' = schedule_live_jobs
    /\ UNCHANGED <<cfg, call, swept, leaked, now, advances, sessions, registry, procs,
                   alive, reqs, hm, drTasks, watcher, hist, fires, keyActive>>

\* POST /relive/schedule: a naive ISO time, refused unless later than now
ScheduleRelive(k, wall) ==
    /\ Len(triggers) < MaxTriggers
    /\ MayAsk
    /\ wall > now
    /\ schedule_live_valid(k)
    /\ triggers' = schedule_live_rows(k, wall, "none", 0, utc_instant(wall, 0), 0)
    /\ jobs' = schedule_live_jobs
    /\ UNCHANGED <<cfg, call, swept, leaked, now, advances, sessions, registry, procs,
                   alive, reqs, hm, drTasks, watcher, hist, fires, keyActive>>

\* LiveSchedulerService.cancel_scheduled_live: its return value
cancel_returns(t) == triggers[t].status \in {"pending", "running"}

\* DELETE /live/schedule/{schedule_id}
Cancel(t) ==
    /\ t \in TrigIds
    /\ cancel_returns(t)
    /\ jobs' = jobs \ {t}
    /\ triggers' = [triggers EXCEPT ![t].status = "cancelled",
                                    ![t].cancelled_from = triggers[t].status]
    /\ UNCHANGED <<cfg, call, swept, leaked, now, advances, sessions, registry, procs,
                   alive, reqs, hm, drTasks, watcher, hist, fires, keyActive>>

\* POST /dashboard/stream-keys/toggle/{key_id}
ToggleKey(k) ==
    /\ keyActive' = [keyActive EXCEPT ![k] = ~@]
    /\ UNCHANGED <<cfg, call, swept, leaked, now, advances, sessions, registry, procs,
                   alive, reqs, hm, drTasks, watcher, hist, triggers, jobs, fires>>

\* APScheduler: the run date of the job has come; the job is handed to the
\* executor and, having no further run date, leaves the job store.
FireDispatch(t) ==
    /\ t \in jobs
    /\ Due(triggers[t].scheduled_time)
    /\ jobs' = jobs \ {t}
    /\ fires' = [fires EXCEPT ![t].pc = "dispatched"]
    /\ UNCHANGED <<cfg, call, swept, leaked, now, advances, sessions, registry, procs,
                   alive, reqs, hm, drTasks, watcher, hist, triggers, keyActive>>

\* _execute_scheduled_live, lines 126-143: the row is loaded and set running
\* (`was` keeps the status the row was loaded with).
FireBegin(t) ==
    /\ fires[t].pc = "dispatched"
    /\ triggers' = [triggers EXCEPT ![t].status = "running"]
    /\ fires' = [fires EXCEPT ![t].pc = "begun", ![t].was = triggers[t].status]
    /\ UNCHANGED <<cfg, call, swept, leaked, now, advances, sessions, registry, procs,
                   alive, reqs, hm, drTasks, watcher, hist, jobs, keyActive>>

\* The except branch of _execute_scheduled_live.
mark_trigger_failed(t, reason) ==
    [triggers EXCEPT ![t].status = "failed", ![t].error_message = reason]

\* The checks of _execute_scheduled_live before the session is created;
\* `found` tells whether the video or playlist of the trigger yields paths.
fire_verdict(t, found) ==
    IF Admission(triggers[t].key) # "ok" THEN Admission(triggers[t].key)
    ELSE IF ~found THEN "UnknownAsset"
    ELSE "ok"

\* _execute_scheduled_live, lines 145-239: checks, then the session row.
FireAdmit(t, found) ==
    /\ fires[t].pc = "begun"
    /\ IF fire_verdict(t, found) = "ok"
       THEN /\ Len(sessions) + Cardinality(Admitted) < SessLimit
            /\ sessions' = Append(sessions,
                    [key |-> triggers[t].key, status |-> "starting", pid |-> NoPid,
                     start_time |-> now, end_time |-> NULL, restart_count |-> 0,
                     last_error |-> "none",
                     max_duration_hours |-> triggers[t].max_duration_hours])
            /\ fires' = [fires EXCEPT ![t].pc = "created", ![t].sid = Len(sessions) + 1]
            /\ UNCHANGED triggers
       ELSE /\ triggers' = mark_trigger_failed(t, fire_verdict(t, found))
            /\ fires' = [fires EXCEPT ![t].pc = "done"]
            /\ UNCHANGED sessions
    /\ UNCHANGED <<cfg, call, swept, leaked, now, advances, registry, procs, alive, reqs,
                   hm, drTasks, watcher, hist, jobs, keyActive>>

\* The next occurrence of a recurring trigger, NULL for none.
next_time(t) ==
    IF triggers[t].recurrence = "daily" THEN triggers[t].scheduled_time + DayLen
    ELSE IF triggers[t].recurrence = "weekly" THEN triggers[t].scheduled_time + WeekLen
    ELSE NULL

\* _execute_scheduled_live, lines 241-305: start_stream, then the session is
\* set running, the trigger completed and linked, and the next occurrence of
\* a recurring trigger scheduled; any exception marks the trigger failed.
FireSpawn(t, ok) ==
    /\ fires[t].pc = "created"
    /\ LET sid == fires[t].sid
           pid == Len(procs) + 1
           started == ok /\ registry[sid] = NoEntry /\ Len(procs) < PidLimit
           done == [triggers EXCEPT ![t].status = "completed",
                                    ![t].live_session_id = sid]
       IN /\ leaked' = start_stream_leaks(sid, started)
          /\ fires' = [fires EXCEPT ![t].pc = "done"]
          /\ IF started
             THEN /\ procs' = Append(procs, sid)
                  /\ alive' = alive \cup {pid}
                  /\ \E loop \in LoopChoices :
                        /\ registry' = [registry EXCEPT ![sid] = NewEntry(pid, loop)]
                        /\ hist' = [hist EXCEPT ![sid].loop = loop]
                  /\ sessions' = [sessions EXCEPT ![sid].pid = pid,
                                                  ![sid].status = "running"]
                  /\ IF next_time(t) = NULL
                     THEN triggers' = done /\ UNCHANGED jobs
                     ELSE IF ~schedule_live_valid(triggers[t].key)
                     THEN /\ triggers' = [done EXCEPT ![t].status = "failed",
                                                      ![t].error_message = "InactiveKey"]
                          /\ UNCHANGED jobs
                     ELSE /\ Len(triggers) < MaxTriggers
                          /\ triggers' = Append(done,
                                [key |-> triggers[t].key, scheduled_time |-> next_time(t),
                                 recurrence |-> triggers[t].recurrence,
                                 max_duration_hours |-> triggers[t].max_duration_hours,
                                 status |-> "pending", live_session_id |-> 0,
                                 error_message |-> "none", created_at |-> now,
                                 asked |-> next_time(t), parent |-> t,
                                 cancelled_from |-> "none"])
                          /\ jobs' = schedule_live_jobs
             ELSE /\ triggers' = mark_trigger_failed(t, "SpawnFailed")
                  /\ UNCHANGED <<procs, alive, registry, sessions, jobs, hist>>
    /\ UNCHANGED <<cfg, call, swept, now, advances, reqs, hm, drTasks, watcher,
                   keyActive>>

\* GET /live/status/{session_id}: LiveSession.to_dict of the row read at the
\* time of the call (instants stand for their ISO renderings, None for NULL).
get_live_status(s) ==
    [status |-> sessions[s].status,
     ffmpeg_pid |-> sessions[s].pid,
     start_time |-> sessions[s].start_time,
     end_time |-> sessions[s].end_time,
     restart_count |-> sessions[s].restart_count]

\* ------------------------------------------------------------ environment
\* An encoder process exits (crash, kill from outside, end of input).
Crash(p) ==
    /\ p \in alive
    /\ alive' = alive \ {p}
    /\ hist' = IF timed THEN [hist EXCEPT ![procs[p]].crashAt = now] ELSE hist
    /\ UNCHANGED <<cfg, call, schedVars, swept, leaked, now, advances, sessions, registry, procs, reqs, hm,
                   drTasks, watcher>>

\* A restart launched for session s in answer to the crash at instant c:
\* the k-th one, k = launched + 1.
Launched(s, c) ==
    IF ~timed THEN hist
    ELSE [hist EXCEPT ![s].launched = @ + 1, ![s].answered = c]

\* --------------------------------------------------------- health monitor
\* The query of a tick with recovering rows let through as well.
active_sessions_and_recovering ==
    {s \in Ids : sessions[s].status \in {"running", "recovering"}}

\* The query of a tick: the rows with status running.
active_sessions == {s \in Ids : sessions[s].status = "running"}

\* One iteration of `while True` up to the query: cleanup_dead_processes,
\* then the rows with status running.  Runs on the event loop, so never
\* inside the body of a delayed_restart task.
HMTickBegin ==
    /\ hm.pc = "sleep"
    /\ Due(hm.nextTick)
    /\ \A t \in drTasks : t.pc = "sleep"
    /\ registry' = cleanup_dead_processes(registry, alive)
    /\ LET snap == active_sessions
       IN hm' = IF snap = {}
                THEN [pc |-> "sleep", snap |-> {}, nextTick |-> now + TickInterval]
                ELSE [pc |-> "iter", snap |-> snap, nextTick |-> hm.nextTick]
    /\ UNCHANGED <<cfg, call, schedVars, swept, leaked, now, advances, sessions, procs, alive, reqs, drTasks,
                   watcher, hist>>

\* The duration test of the loop body.
DurationReached(s, seenEnd) ==
    /\ sessions[s].max_duration_hours > 0
    /\ get_duration_seconds(s, seenEnd) >= sessions[s].max_duration_hours * SecondsPerHour

\* The body of `for session in active_sessions` for the next row of the
\* snapshot.  The row object was loaded by the query (stale = TRUE) or
\* reloaded after an earlier commit of this tick (stale = FALSE).
HMStep(stale) ==
    /\ hm.pc = "iter"
    /\ LET s == SetMin(hm.snap)
           rest == hm.snap \ {s}
           row == sessions[s]
           seen == IF stale THEN "running" ELSE row.status
           seenEnd == IF stale THEN NULL ELSE row.end_time
       IN /\ hm' = IF rest = {}
                   THEN [pc |-> "sleep", snap |-> {}, nextTick |-> now + TickInterval]
                   ELSE [hm EXCEPT !.snap = rest]
          /\ IF DurationReached(s, seenEnd)
             THEN /\ sessions' = StopRows(s, seen)
                  /\ registry' = StopRegistry(s, seen)
                  /\ alive' = StopAlive(s, seen)
                  /\ UNCHANGED drTasks
             ELSE IF is_process_running(s)
             THEN UNCHANGED <<sessions, registry, alive, drTasks>>
             ELSE IF row.restart_count < Len(backoff_delays)
             THEN /\ sessions' = [sessions EXCEPT ![s].last_error = get_last_error,
                                                  ![s].status = "recovering"]
                  /\ drTasks' = drTasks \cup
                        {[sid |-> s, pc |-> "sleep",
                          due |-> now + backoff_delays[row.restart_count + 1],
                          crash |-> hist[s].crashAt]}
                  /\ UNCHANGED <<registry, alive>>
             ELSE /\ sessions' = [sessions EXCEPT ![s].last_error = get_last_error,
                                                  ![s].status = "failed",
                                                  ![s].end_time = now]
                  /\ UNCHANGED <<registry, alive, drTasks>>
    /\ UNCHANGED <<cfg, call, schedVars, swept, leaked, now, advances, procs, reqs, watcher, hist>>

\* delayed_restart after its sleep: the status test.
DRCheck(t) ==
    /\ t \in drTasks
    /\ t.pc = "sleep"
    /\ Due(t.due)
    /\ hm.pc = "sleep"
    /\ \A u \in drTasks : u.pc = "sleep"
    /\ drTasks' = IF sessions[t.sid].status # "recovering"
                  THEN drTasks \ {t}
                  ELSE (drTasks \ {t}) \cup {[t EXCEPT !.pc = "checked"]}
    /\ UNCHANGED <<cfg, call, schedVars, swept, leaked, now, advances, sessions, registry, procs, alive, reqs,
                   hm, watcher, hist>>

\* delayed_restart: ffmpeg_service.start_stream and the write that follows.
\* start_stream returns None when the registry still holds an entry for the
\* session or when Popen raises (ok = FALSE).
DRSpawn(t, ok) ==
    /\ t \in drTasks
    /\ t.pc = "checked"
    /\ LET s == t.sid
           pid == Len(procs) + 1
           started == ok /\ registry[s] = NoEntry /\ Len(procs) < PidLimit
       IN /\ leaked' = start_stream_leaks(s, started)
          /\ IF started
             THEN /\ procs' = Append(procs, s)
                  /\ alive' = alive \cup {pid}
                  /\ registry' = [registry EXCEPT ![s] = NewEntry(pid, TRUE)]
                  /\ sessions' = [sessions EXCEPT ![s].pid = pid,
                                                  ![s].status = "running",
                                                  ![s].restart_count = @ + 1,
                                                  ![s].last_error = "none"]
                  /\ hist' = [Launched(s, t.crash) EXCEPT ![s].oserr = FALSE]
             ELSE /\ sessions' = [sessions EXCEPT ![s].status = "failed",
                                                  ![s].last_error = "restart_failed"]
                  /\ hist' = [hist EXCEPT ![s].oserr = (registry[s] = NoEntry)]
                  /\ UNCHANGED <<procs, alive, registry>>
    /\ drTasks' = drTasks \ {t}
    /\ UNCHANGED <<cfg, call, schedVars, swept, now, advances, reqs, hm, watcher>>

\* ---------------------------------------------------------------- watcher
\* wait_time = 5 * (2 ** (retry_count - 1))
wait_time(retry_count) == WatcherBase * Pow2(retry_count - 1)

\* _monitor_loop finds the process of session s dead.  Below max_retries it
\* increments retry_count in the entry and goes to sleep; at max_retries it
\* calls stop_stream, which removes the entry.
WatcherPoll(s) ==
    /\ watcher.pc = "poll"
    /\ s \in SessionIds
    /\ registry[s] # NoEntry
    /\ registry[s].pid \notin alive
    /\ IF registry[s].retry_count < MAX_RETRIES
       THEN /\ registry' = [registry EXCEPT ![s].retry_count = @ + 1]
            /\ watcher' = [watcher EXCEPT !.pc = "sleep", !.sid = s,
                              !.due = now + wait_time(registry[s].retry_count + 1),
                              !.old_retry = registry[s].retry_count + 1,
                              !.loop = registry[s].loop,
                              !.crash = IF s \in Ids THEN hist[s].crashAt ELSE NULL]
       ELSE /\ registry' = stop_stream_registry(registry, s)
            /\ UNCHANGED watcher
    /\ UNCHANGED <<cfg, call, schedVars, swept, leaked, now, advances, sessions, procs, alive, reqs, hm,
                   drTasks, hist>>

\* After time.sleep(wait_time): `if session_id in self.active_processes`.
WatcherWake ==
    /\ watcher.pc = "sleep"
    /\ Due(watcher.due)
    /\ watcher' = IF registry[watcher.sid] # NoEntry
                  THEN [watcher EXCEPT !.pc = "restart", !.due = 0]
                  ELSE WatcherIdle
    /\ UNCHANGED <<cfg, call, schedVars, swept, leaked, now, advances, sessions, registry, procs, alive, reqs,
                   hm, drTasks, hist>>

\* _restart_session: start_stream with the stored arguments.  It returns
\* None while the registry holds an entry for the session; when it spawns,
\* the new entry gets the retry_count of the old one.
WatcherRestart(ok) ==
    /\ watcher.pc = "restart"
    /\ LET s == watcher.sid
           pid == Len(procs) + 1
           started == ok /\ registry[s] = NoEntry /\ Len(procs) < PidLimit
       IN /\ leaked' = start_stream_leaks(s, started)
          /\ IF started
             THEN /\ procs' = Append(procs, s)
                  /\ alive' = alive \cup {pid}
                  /\ registry' = [registry EXCEPT ![s] =
                                    [NewEntry(pid, watcher.loop) EXCEPT !.retry_count = watcher.old_retry]]
                  /\ hist' = Launched(s, watcher.crash)
                  /\ watcher' = WatcherIdle
             ELSE /\ watcher' = [WatcherIdle EXCEPT !.oserr = (registry[s] = NoEntry)]
                  /\ UNCHANGED <<procs, alive, registry, hist>>
    /\ UNCHANGED <<cfg, call, schedVars, swept, now, advances, sessions, reqs, hm, drTasks>>

\* _restart_session taken in the two steps the watcher thread makes of it,
\* with the event loop and the request handlers running in between.  First
\* the test of start_stream, line 78: `if session_id in self.active_processes`
\* returns None.
WatcherRestartCheck ==
    /\ watcher.pc = "restart"
    /\ watcher' = IF registry[watcher.sid] = NoEntry
                  THEN [watcher EXCEPT !.pc = "spawning"]
                  ELSE WatcherIdle
    /\ UNCHANGED <<cfg, call, schedVars, swept, leaked, now, advances, sessions, registry, procs,
                   alive, reqs, hm, drTasks, hist>>

\* Then lines 82-131: the manifest, Popen and the assignment of the entry,
\* which replaces whatever entry the session has by then; _restart_session
\* restores the retry_count.
WatcherRestartSpawn(ok) ==
    /\ watcher.pc = "spawning"
    /\ LET s == watcher.sid
           pid == Len(procs) + 1
           started == ok /\ Len(procs) < PidLimit
       IN /\ leaked' = IF started THEN leaked ELSE leaked \cup {s}
          /\ IF started
             THEN /\ procs' = Append(procs, s)
                  /\ alive' = alive \cup {pid}
                  /\ registry' = [registry EXCEPT ![s] =
                                    [NewEntry(pid, watcher.loop) EXCEPT !.retry_count = watcher.old_retry]]
                  /\ hist' = Launched(s, watcher.crash)
                  /\ watcher' = WatcherIdle
             ELSE /\ watcher' = [WatcherIdle EXCEPT !.oserr = TRUE]
                  /\ UNCHANGED <<procs, alive, registry, hist>>
    /\ UNCHANGED <<cfg, call, schedVars, swept, now, advances, sessions, reqs, hm, drTasks>>

\* ------------------------------------------------------------------ clock
\* The tick at hm.nextTick would change nothing: no entry to clean up and no
\* running row that is dead.
TickIdle ==
    /\ \A s \in SessionIds : registry[s] # NoEntry => registry[s].pid \in alive
    /\ \A s \in Ids : sessions[s].status = "running" => is_process_running(s)

\* The instant at which the duration test of a running row first succeeds.
CapTimes == {sessions[s].start_time + sessions[s].max_duration_hours * SecondsPerHour :
                s \in {x \in Ids : sessions[x].status = "running" /\
                                    sessions[x].max_duration_hours > 0}}

\* The sleeps that are running.
Timers == {t.due : t \in {u \in drTasks : u.pc = "sleep"}}
            \cup (IF watcher.pc = "sleep" THEN {watcher.due} ELSE {})

\* The first tick at or after instant t.
TickAtOrAfter(t) ==
    IF t <= hm.nextTick THEN hm.nextTick
    ELSE hm.nextTick + TickInterval * (((t - hm.nextTick) + TickInterval - 1) \div TickInterval)

\* The next instant at which something is due to happen; when nothing is
\* pending, the tick after an hour of undisturbed running.
Deadline ==
    LET ds == Timers \cup (IF TickIdle THEN {TickAtOrAfter(c) : c \in CapTimes}
                           ELSE {hm.nextTick})
    IN IF ds = {} THEN TickAtOrAfter(now + StableUptime + 1) ELSE SetMin(ds)

\* Wall-clock time passes up to t.  No sleep is overslept; the ticks that
\* fall before t change nothing and are skipped.
Advance(t) ==
    /\ timed
    /\ advances < MaxAdvance
    /\ Timers # {} \/ \E s \in Ids : sessions[s].status \in ActiveStatuses
    /\ hm.pc = "sleep"
    /\ \A u \in drTasks : u.pc = "sleep"
    /\ watcher.pc # "restart"
    /\ \A r \in Reqs : ~InFlight(r)
    /\ t > now
    /\ t <= Deadline
    /\ now' = t
    /\ advances' = advances + 1
    /\ hm' = [hm EXCEPT !.nextTick = TickAtOrAfter(t)]
    /\ UNCHANGED <<cfg, call, schedVars, swept, leaked, sessions, registry, procs, alive, reqs, drTasks,
                   watcher, hist>>

AdvanceTargets == {Deadline - k * TimeUnit : k \in 0 .. JumpSlack}

\* ------------------------------------------------------------------- Next
NextA ==
    \/ \E r \in Reqs, kind \in Kinds, k \in Keys, h \in DurationChoices :
            StartAdmit(r, kind, k, h)
    \/ \E r \in Reqs, h \in DurationChoices : StartBroadcast(r, h)
    \/ \E r \in Reqs : CreateSession(r)
    \/ \E r \in Reqs, ok \in BOOLEAN : SpawnEncoder(r, ok)
    \/ \E r \in Reqs : CommitStart(r)
    \/ \E s \in SessionIds : Stop(s)
    \/ \E p \in 1 .. MaxTimedPids + MaxPids : Crash(p)
    \/ HMTickBegin
    \/ \E stale \in BOOLEAN : HMStep(stale)
    \/ \E t \in drTasks : DRCheck(t)
    \/ \E t \in drTasks, ok \in BOOLEAN : DRSpawn(t, ok)

Next ==
    \/ NextA
    \/ \E s \in SessionIds : WatcherPoll(s)
    \/ WatcherWake
    \/ \E ok \in BOOLEAN : WatcherRestart(ok)

NextT == Next \/ \E t \in AdvanceTargets : Advance(t)

NextV ==
    \/ StartManualLiveRow
    \/ ScheduleLiveRow
    \/ FFmpegCreateConcatFile
    \/ CreateConcatFile

NextW == Boot \/ NextA

\* What the event loop keeps running: the health monitor never stops ticking
\* and a task that was created runs to its end.  Requests, stops, crashes
\* and restarts of the application come when they come.
Fairness ==
    /\ WF_vars(HMTickBegin)
    /\ WF_vars(\E stale \in BOOLEAN : HMStep(stale))
    /\ SF_vars(\E t \in drTasks : DRCheck(t))
    /\ SF_vars(\E t \in drTasks, ok \in BOOLEAN : DRSpawn(t, ok))

NextF ==
    \/ NextA
    \/ \E s \in SessionIds : WatcherPoll(s)
    \/ WatcherWake
    \/ WatcherRestartCheck
    \/ \E ok \in BOOLEAN : WatcherRestartSpawn(ok)

NextR ==
    \/ \E s \in SessionIds, found \in BOOLEAN, ok \in BOOLEAN : Rotate(s, found, ok)
    \/ \E t \in AdvanceTargets : Advance(t)
    \/ \E r \in Reqs, k \in Keys : StartAdmit(r, "manual", k, 0)
    \/ \E r \in Reqs : CreateSession(r)
    \/ \E r \in Reqs, ok \in BOOLEAN : SpawnEncoder(r, ok)
    \/ \E r \in Reqs : CommitStart(r)
    \/ \E s \in SessionIds : Stop(s)
    \/ \E p \in 1 .. MaxRotatePids : Crash(p)
    \/ HMTickBegin
    \/ \E stale \in BOOLEAN : HMStep(stale)
    \/ \E t \in drTasks : DRCheck(t)
    \/ \E t \in drTasks, ok \in BOOLEAN : DRSpawn(t, ok)

NextM ==
    \/ StopAll
    \/ \E k \in Keys : StopByKey(k)
    \/ ForceReap
    \/ Boot
    \/ NextA

NextS ==
    \/ \E k \in Keys, wall \in ScheduleWalls, offset \in Offsets, rec \in Recurrences :
            Schedule(k, wall, offset, rec)
    \/ \E k \in Keys, wall \in ScheduleWalls : ScheduleRelive(k, wall)
    \/ \E t \in TriggerIds : Cancel(t)
    \/ \E k \in Keys : ToggleKey(k)
    \/ \E t \in TriggerIds : FireDispatch(t)
    \/ \E t \in TriggerIds : FireBegin(t)
    \/ \E t \in TriggerIds, found \in BOOLEAN : FireAdmit(t, found)
    \/ \E t \in TriggerIds, ok \in BOOLEAN : FireSpawn(t, ok)
    \/ \E r \in Reqs, k \in Keys : StartAdmit(r, "manual", k, 0)
    \/ \E r \in Reqs : CreateSession(r)
    \/ \E r \in Reqs, ok \in BOOLEAN : SpawnEncoder(r, ok)
    \/ \E r \in Reqs : CommitStart(r)
    \/ \E s \in SessionIds : Stop(s)
    \/ \E p \in 1 .. MaxMaintPids : Crash(p)

NextB == Boot \/ NextS

NextK ==
    \/ \E k \in Keys, wall \in ScheduleWalls, offset \in Offsets, rec \in Recurrences :
            Schedule(k, wall, offset, rec)
    \/ \E t \in TriggerIds : FireDispatch(t)
    \/ \E t \in TriggerIds : FireBegin(t)
    \/ \E t \in TriggerIds, found \in BOOLEAN : FireAdmit(t, found)
    \/ \E t \in TriggerIds, ok \in BOOLEAN : FireSpawn(t, ok)
    \/ \E r \in Reqs, k \in Keys : StartAdmit(r, "manual", k, 0)
    \/ \E r \in Reqs : CreateSession(r)
    \/ \E r \in Reqs, ok \in BOOLEAN : SpawnEncoder(r, ok)
    \/ \E r \in Reqs : CommitStart(r)
    \/ \E s \in SessionIds : Stop(s)
    \/ \E p \in 1 .. MaxMaintPids : Crash(p)

Spec == Init /\ [][Next]_vars
SpecS == InitS /\ [][NextS]_vars
SpecB == InitB /\ [][NextB]_vars
SpecK == InitK /\ [][NextK]_vars
SpecM == InitM /\ [][NextM]_vars
SpecA == InitA /\ [][NextA]_vars
SpecT == InitT /\ [][NextT]_vars
SpecW == InitW /\ [][NextW]_vars /\ Fairness
SpecV == InitV /\ [][NextV]_vars
SpecL == InitL /\ [][NextA]_vars
SpecF == Init /\ [][NextF]_vars
SpecR == InitR /\ [][NextR]_vars

\* ----------------------------------------------------------- properties
\* C1 (SpecA): for every stream key, at most one session bound to it has a
\* status in {starting, running, recovering}.
C1_KeyExclusive ==
    \A k \in Keys :
        Cardinality({s \in Ids : sessions[s].key = k /\
                                 sessions[s].status \in ActiveStatuses}) <= 1

\* C2 (SpecA): the number of sessions with a status in {starting, running,
\* recovering} never exceeds MAX_CONCURRENT_STREAMS, whichever start path
\* created them.
C2_WithinCapacity ==
    Cardinality({s \in Ids : sessions[s].status \in ActiveStatuses})
        <= MAX_CONCURRENT_STREAMS

\* C3 (SpecA): of two start attempts (manual or scheduled) that overlap on
\* the same key, the key being free of any other active session, exactly
\* one starts its session and the other is rejected as KeyBusy.
C3_ConcurrentStartsExclusive ==
    \A r, q \in Reqs :
        (/\ r # q
         /\ reqs[r].pc = "done" /\ reqs[q].pc = "done"
         /\ reqs[r].rival = q /\ reqs[q].rival = r
         /\ reqs[r].key = reqs[q].key
         /\ reqs[r].free /\ reqs[q].free
         /\ reqs[r].kind \in {"manual", "scheduled"}
         /\ reqs[q].kind \in {"manual", "scheduled"}
         /\ reqs[r].result \in {"started", "KeyBusy"}
         /\ reqs[q].result \in {"started", "KeyBusy"})
        => (reqs[r].result = "started") # (reqs[q].result = "started")

\* C4 (Spec): when the watcher, after its backoff sleep, restarts a session
\* that has not been stopped, and the operating system does not refuse the
\* spawn, the registry entry of the session then holds a live process and
\* its retry counter is one more than before the crash.
C4_WatcherRespawns ==
    [][(/\ watcher.pc = "restart"
        /\ watcher'.pc = "poll"
        /\ ~watcher'.oserr
        /\ sessions[watcher.sid].status \notin {"stopped", "failed"})
       => (/\ registry'[watcher.sid] # NoEntry
           /\ registry'[watcher.sid].pid \in alive'
           /\ registry'[watcher.sid].pid \notin alive
           /\ registry'[watcher.sid].retry_count = watcher.old_retry)]_vars

\* C5 (Spec): once a session is stopped, no step makes its status recovering
\* or running and no step leaves it with a live encoder process.
C5_StoppedStaysStopped ==
    [][\A s \in Ids :
          sessions[s].status = "stopped"
          => (/\ sessions'[s].status \notin {"recovering", "running"}
              /\ \A p \in alive' : procs'[p] # s)]_vars

\* C6 (SpecT): a delayed restart that finds its session still recovering,
\* and whose spawn the operating system does not refuse, leaves the session
\* running with a new, live encoder pid and restart_count one higher.
C6_DelayedRestartRecovers ==
    [][\A t \in drTasks :
          (/\ t.pc = "checked"
           /\ t \notin drTasks'
           /\ sessions[t.sid].status = "recovering"
           /\ ~hist'[t.sid].oserr)
          => (/\ sessions'[t.sid].status = "running"
              /\ sessions'[t.sid].pid # sessions[t.sid].pid
              /\ sessions'[t.sid].pid \in alive'
              /\ sessions'[t.sid].restart_count =
                     sessions[t.sid].restart_count + 1)]_vars

\* C7 (Spec): the step in which the watcher gives a session up, its retry
\* counter being at the maximum and its encoder dead again, leaves the row
\* with status failed and the captured log line in last_error.
C7_ExhaustionFinalizes ==
    [][\A s \in Ids :
          (WatcherPoll(s) /\ registry[s].retry_count >= MAX_RETRIES)
          => (/\ sessions'[s].status = "failed"
              /\ sessions'[s].last_error = get_last_error)]_vars

\* C8 (SpecT): a step that launches the k-th restart of a session that is
\* neither stopped nor failed comes at least 5 * 2^(k-1) seconds after the
\* crash it answers, and k is at most 5.
C8_BackoffRespected ==
    [][\A s \in Ids :
          (/\ hist'[s].launched = hist[s].launched + 1
           /\ sessions[s].status \notin {"stopped", "failed"})
          => (/\ hist'[s].launched <= MAX_RETRIES
              /\ now - hist'[s].answered >=
                     WatcherBase * Pow2(hist[s].launched))]_vars

\* C9 (SpecT): when the health monitor handles a running row whose encoder
\* is alive, whose restart_count is positive and whose encoder has been up
\* for more than 3600 seconds, it sets restart_count to 0.
C9_StabilityReset ==
    [][(/\ hm.pc = "iter"
        /\ hm' # hm
        /\ sessions[SetMin(hm.snap)].status = "running"
        /\ ~DurationReached(SetMin(hm.snap), sessions[SetMin(hm.snap)].end_time)
        /\ is_process_running(SetMin(hm.snap))
        /\ sessions[SetMin(hm.snap)].restart_count > 0
        /\ now - registry[SetMin(hm.snap)].started_at > StableUptime)
       => sessions'[SetMin(hm.snap)].restart_count = 0]_vars

\* C10 (SpecT): a session with max_duration_hours = H > 0 whose encoder was
\* started is ended no later
\* than H hours and one tick of the health monitor after its start: an
\* end_time it has is within that limit, and past that limit it is neither
\* running nor recovering.
C10_DurationCap ==
    \A s \in Ids :
        (sessions[s].max_duration_hours > 0 /\ sessions[s].pid # NoPid)
        => LET limit == sessions[s].max_duration_hours * SecondsPerHour + TickInterval
           IN /\ sessions[s].end_time # NULL
                    => sessions[s].end_time - sessions[s].start_time <= limit
              /\ sessions[s].status \in {"running", "recovering"}
                    => now - sessions[s].start_time <= limit

\* C11 (Spec): a step that takes a session to stopped or to failed leaves
\* no concat file of that session on disk, neither one held by a registry
\* entry nor one left behind by a spawn that failed.
C11_NoManifestSurvives ==
    [][\A s \in Ids :
          (/\ sessions'[s].status \in {"stopped", "failed"}
           /\ sessions[s].status \notin {"stopped", "failed"})
          => (s \notin leaked' /\ registry'[s] = NoEntry)]_vars

\* C12 (SpecA): a start that the admission queries reject, as KeyBusy or as
\* CapacityExhausted, inserts no row, spawns no encoder and leaves every
\* session, the registry and the processes as they were; a key rejected as
\* busy has an active session and a rejection for capacity finds at least
\* MAX_CONCURRENT_STREAMS active sessions.
C12_RejectedStartChangesNothing ==
    [][\A r \in Reqs :
          (/\ reqs[r].pc = "idle"
           /\ reqs'[r].result \in {"KeyBusy", "CapacityExhausted"})
          => (/\ sessions' = sessions
              /\ procs' = procs
              /\ alive' = alive
              /\ registry' = registry
              /\ reqs'[r].result = "KeyBusy"
                    => \E s \in Ids : /\ sessions[s].key = reqs'[r].key
                                      /\ sessions[s].status \in ActiveStatuses
              /\ reqs'[r].result = "CapacityExhausted"
                    => Cardinality({s \in Ids :
                                      sessions[s].status \in ActiveStatuses})
                          >= MAX_CONCURRENT_STREAMS)]_vars

\* C12 witness: a start was rejected as KeyBusy while the session of an
\* earlier start on the same key runs.
C12_Witness ==
    \E r, q \in Reqs :
        /\ reqs[r].result = "KeyBusy"
        /\ reqs[q].result = "started"
        /\ reqs[q].key = reqs[r].key
        /\ sessions[reqs[q].sid].status = "running"

\* C13 (SpecA): once a start operation whose encoder failed to spawn has
\* returned, its session is not left in status starting, whichever start
\* path it was.
C13_SpawnFailureMarksFailed ==
    \A r \in Reqs :
        (reqs[r].pc = "done" /\ reqs[r].result = "spawn_failed")
        => sessions[reqs[r].sid].status # "starting"

\* C14 (SpecT): when Stop acts on a session that was started successfully
\* and is still active, the Status read that follows reports status stopped
\* with a non-null end_time that is not earlier than start_time.
C14_StopThenStatus ==
    [][\A s \in Ids :
          (/\ Stop(s)
           /\ sessions[s].status \in ActiveStatuses
           /\ sessions[s].pid # NoPid)
          => (/\ get_live_status(s)'.status = "stopped"
              /\ get_live_status(s)'.end_time # NULL
              /\ get_live_status(s)'.end_time >= get_live_status(s)'.start_time)]_vars

\* A session started successfully, run for a while and then stopped.
C14_Witness ==
    \E s \in Ids :
        /\ \E r \in Reqs : reqs[r].result = "started" /\ reqs[r].sid = s
        /\ get_live_status(s).status = "stopped"
        /\ get_live_status(s).ffmpeg_pid # NoPid
        /\ get_live_status(s).end_time > get_live_status(s).start_time

\* C15 (Spec): Stop is idempotent. When the stop handler calls the
\* supervisor's stop_stream for a session id that has no registry entry, the
\* call returns success; and a Stop of an already stopped session leaves its
\* row and the registry as they were.
C15_StopIdempotent ==
    [][\A s \in Ids :
          Stop(s) =>
            /\ (sessions[s].status \notin {"stopped", "failed"} /\ registry[s] = NoEntry)
                  => (stop_stream_returns(registry, s) /\ registry' = registry)
            /\ sessions[s].status = "stopped"
                  => (sessions'[s] = sessions[s] /\ registry' = registry)]_vars

\* C17 (Spec): in every reachable state a session's ffmpeg_pid is non-null
\* if and only if its status is running or recovering.
C17_PidIffRunning ==
    \A s \in Ids :
        (sessions[s].pid # NoPid) <=> (sessions[s].status \in {"running", "recovering"})

\* C18 (Spec): in every reachable state a session's end_time is non-null if
\* and only if its status is stopped, failed or interrupted.
C18_EndTimeIffFinal ==
    \A s \in Ids :
        (sessions[s].end_time # NULL)
        <=> (sessions[s].status \in {"stopped", "failed", "interrupted"})

\* C16 (SpecM): when Stop with scope all returns no session is active, when
\* Stop with scope by_key returns no session bound to that key is active, and
\* a session that was in the scope of either does not become running later.
C16_ScopedStopLeavesNoneActive ==
    [][/\ StopAll => \A s \in Ids : sessions'[s].status \notin ActiveStatuses
       /\ \A k \in Keys :
             StopByKey(k) =>
                \A s \in Ids : sessions[s].key = k
                                  => sessions'[s].status \notin ActiveStatuses
       /\ \A s \in swept :
             sessions[s].status # "running" => sessions'[s].status # "running"]_vars

\* C19 (SpecM): ForceReapOrphans terminates exactly the encoder processes
\* that no active session (starting, running or recovering) owns, by its row
\* or by its registry entry; the encoder of a session that is being started
\* or restarted survives it.
C19_ReapsExactlyOrphans ==
    [][ForceReap =>
         LET active == {x \in Ids : sessions[x].status \in ActiveStatuses}
             owned == {sessions[s].pid : s \in active}
                      \cup {registry[s].pid : s \in active}
         IN (alive \ alive') = (alive \ owned)]_vars

\* C20 (SpecM): after boot reconciliation every live encoder's pid is held by
\* an active session row, every running row has a live encoder, and a running
\* row was marked interrupted only if its pid had no live process.
C20_BootReconciles ==
    [][Boot =>
         /\ \A p \in alive' :
               \E s \in Ids : sessions'[s].status \in ActiveStatuses
                              /\ sessions'[s].pid = p
         /\ \A s \in Ids : sessions'[s].status = "running" => sessions'[s].pid \in alive'
         /\ \A s \in Ids :
               (sessions[s].status = "running" /\ sessions'[s].status = "interrupted")
               => sessions[s].pid \notin alive]_vars

\* C21 (SpecS): a fire that finds its trigger in a status other than pending
\* is a no-op: the trigger row stays as it is, no session row is created and
\* no encoder is spawned by that fire.
C21_FireOfNonPendingIsNoOp ==
    [][\A t \in TrigIds :
          /\ (FireBegin(t) /\ triggers[t].status # "pending")
                => triggers'[t] = triggers[t]
          /\ (fires[t].was \notin {"none", "pending"}
              /\ (\E found \in BOOLEAN : FireAdmit(t, found)
                  \/ \E ok \in BOOLEAN : FireSpawn(t, ok)))
                => (sessions' = sessions /\ procs' = procs)]_vars

\* C22 (SpecS): once Cancel of a pending trigger has returned success, the
\* trigger is cancelled and stays so, it holds no timer, and no fire creates
\* a session for it, however the Cancel interleaves with the timer.
C22_CancelledNeverFires ==
    [][\A t \in TrigIds :
          triggers[t].cancelled_from = "pending"
          => /\ triggers[t].status = "cancelled"
             /\ triggers'[t].status = "cancelled"
             /\ t \notin jobs'
             /\ fires'[t].sid = 0]_vars

\* C23 (SpecS): Cancel succeeds only for a trigger whose status is pending;
\* for any other status it leaves the trigger row and its timer unchanged.
C23_CancelOnlyPending ==
    [][\A t \in TrigIds :
          Cancel(t) => (cancel_returns(t) => triggers[t].status = "pending")]_vars

\* C24 (SpecS): when the fire of a pending trigger with recurrence daily
\* (weekly) starts its encoder, the trigger ends completed and linked to the
\* spawned session, and exactly one new trigger exists: pending, same
\* content, scheduled_time one day (seven days) later, with a timer.
C24_RecurrenceAfterSuccess ==
    [][\A t \in TrigIds :
          (/\ FireSpawn(t, TRUE)
           /\ alive' # alive
           /\ fires[t].was = "pending"
           /\ triggers[t].recurrence \in {"daily", "weekly"})
          => /\ triggers'[t].status = "completed"
             /\ triggers'[t].live_session_id = fires[t].sid
             /\ Len(triggers') = Len(triggers) + 1
             /\ LET u == Len(triggers')
                    period == IF triggers[t].recurrence = "daily" THEN DayLen ELSE WeekLen
                IN /\ triggers'[u].status = "pending"
                   /\ triggers'[u].key = triggers[t].key
                   /\ triggers'[u].recurrence = triggers[t].recurrence
                   /\ triggers'[u].scheduled_time = triggers[t].scheduled_time + period
                   /\ u \in jobs']_vars

\* C25 (SpecS): when the fire of a recurring trigger fails, the trigger is
\* marked failed, its job is not run again, and the next occurrence is
\* scheduled as a new pending trigger with a timer.
C25_RecurrenceAfterFailure ==
    [][\A t \in TrigIds :
          (/\ fires[t].pc \in {"begun", "created"}
           /\ fires'[t].pc = "done"
           /\ triggers'[t].status = "failed"
           /\ triggers[t].recurrence \in {"daily", "weekly"}
           /\ Len(triggers) < MaxTriggers)
          => /\ t \notin jobs'
             /\ Len(triggers') = Len(triggers) + 1
             /\ triggers'[Len(triggers')].status = "pending"
             /\ triggers'[Len(triggers')].scheduled_time
                    = triggers[t].scheduled_time
                      + (IF triggers[t].recurrence = "daily" THEN DayLen ELSE WeekLen)
             /\ Len(triggers') \in jobs']_vars

\* C26 (SpecK): a fire that finds its stream key inactive or held by an
\* active session (starting, running or recovering), or the global cap
\* reached by the active sessions, finalizes the trigger failed with the
\* reason in error_message, and creates no session row and no encoder.
C26_FireAdmissionFailure ==
    [][\A t \in TrigIds :
          LET active == {s \in Ids : sessions[s].status \in ActiveStatuses}
          IN (/\ \E found \in BOOLEAN : FireAdmit(t, found)
              /\ \/ ~keyActive[triggers[t].key]
                 \/ \E s \in active : sessions[s].key = triggers[t].key
                 \/ Cardinality(active) >= MAX_CONCURRENT_STREAMS)
             => /\ triggers'[t].status = "failed"
                /\ triggers'[t].error_message # "none"
                /\ sessions' = sessions
                /\ procs' = procs]_vars

\* C27 (SpecA): a start request goes on to create its session only after
\* the admission checks, evaluated over the sessions in starting, running
\* and recovering, have passed: the key is active, no such session holds it
\* and their number is below the cap.
C27_EveryStartAdmitted ==
    [][\A r \in Reqs :
          (reqs[r].pc = "idle" /\ reqs'[r].pc = "admitted") =>
             LET active == {s \in Ids : sessions[s].status \in ActiveStatuses}
                 k == reqs'[r].key
             IN /\ (k \in Keys => keyActive[k])
                /\ \A s \in active : sessions[s].key # k
                /\ Cardinality(active) < MAX_CONCURRENT_STREAMS]_vars

\* C28 (SpecS): no trigger asked for through a schedule request carries a
\* scheduled_time that was not in the future when the request was made.
C28_PastTimeRejected ==
    \A t \in TrigIds :
        triggers[t].parent = 0 => triggers[t].scheduled_time > triggers[t].created_at

\* C29 (SpecS): the scheduled_time stored on a trigger asked for with a UTC
\* offset is the instant the caller meant, expressed in UTC.
C29_StoredTimeIsUtcInstant ==
    \A t \in TrigIds :
        triggers[t].parent = 0 => triggers[t].scheduled_time = triggers[t].asked

\* C30 (Spec): while the registry of the supervisor holds the entry of a
\* session whose encoder has died, a step of the health monitor neither
\* removes that entry, nor marks the session recovering, nor schedules a
\* delayed restart for it.
C30_MonitorYieldsToRegistry ==
    [][(HMTickBegin \/ \E stale \in BOOLEAN : HMStep(stale)) =>
         \A s \in Ids :
            (registry[s] # NoEntry /\ registry[s].pid \notin alive)
            => /\ registry'[s] = registry[s]
               /\ (sessions'[s].status = "recovering" => sessions[s].status = "recovering")
               /\ {t \in drTasks' : t.sid = s} = {t \in drTasks : t.sid = s}]_vars

\* C31: in every reachable state, a restart of the application included,
\* every trigger with status pending has a live timer: its job is in the job
\* store, or the job was handed to the executor and is about to run.
C31_PendingHasTimer ==
    \A t \in TrigIds :
        triggers[t].status = "pending" => (t \in jobs \/ fires[t].pc = "dispatched")

\* C32 (SpecR): no step changes a session that is in a terminal status:
\* Stop, the health monitor, a delayed restart and the key rotation leave the
\* status and the end_time of a stopped, failed or interrupted session as
\* they were.
C32_TerminalIsFinal ==
    [][\A s \in Ids :
          sessions[s].status \in {"stopped", "failed", "interrupted"}
          => (/\ sessions'[s].status = sessions[s].status
              /\ sessions'[s].end_time = sessions[s].end_time)]_vars

\* C33 (SpecR): in every reachable state a session with a non-null end_time
\* has end_time >= start_time, also after a key rotation that follows a stop.
C33_EndNotBeforeStart ==
    \A s \in Ids :
        sessions[s].end_time # NULL => sessions[s].end_time >= sessions[s].start_time

\* C36 (SpecF): at any time at most one encoder process is alive for a
\* session id, and every live encoder process is the one the registry entry
\* of its session refers to, whatever the interleaving of start, watcher
\* restart, delayed restart, cleanup of dead entries and stop.
C36_OneEncoderPerSession ==
    /\ \A p, q \in alive : procs[p] = procs[q] => p = q
    /\ \A p \in alive : registry[procs[p]].pid = p

\* C38 (SpecT): at any time a session has at most one delayed restart
\* pending, and a tick of the health monitor never creates a delayed restart
\* for a session that already has one.
C38_OnePendingRestart ==
    [][/\ \A s \in 1 .. Len(sessions') :
             Cardinality({t \in drTasks' : t.sid = s}) <= 1
       /\ \A s \in Ids :
             (/\ \E stale \in BOOLEAN : HMStep(stale)
              /\ s = SetMin(hm.snap)
              /\ sessions'[s].status = "recovering")
             => ~\E t \in drTasks : t.sid = s]_vars

\* A tick has just run, later than the one that made the session recovering,
\* while the delayed restart of the session is still asleep.
C38_Witness ==
    \E t \in drTasks :
        /\ t.pc = "sleep"
        /\ sessions[t.sid].status = "recovering"
        /\ hm.pc = "sleep"
        /\ hm.nextTick = now + TickInterval
        /\ now > t.due - backoff_delays[sessions[t.sid].restart_count + 1]

\* C39 (SpecL): a delayed restart that launches an encoder launches it with
\* the loop flag of the session's original start: a session started without
\* loop is never restarted with loop.
C39_RestartKeepsLoop ==
    [][\A t \in drTasks :
          (/\ DRSpawn(t, TRUE)
           /\ registry'[t.sid].pid = Len(procs) + 1)
          => registry'[t.sid].loop = hist[t.sid].loop]_vars

\* C34 (SpecV): every row the manual start or the scheduler inserts has
\* exactly one of video_id and playlist_id set, the one that matches its
\* mode: video_id for single, playlist_id for playlist.
C34_OneAssetMatchingMode ==
    (call.done /\ call.row # NoRow)
    => \/ (/\ call.row.mode = "single"
           /\ call.row.video_id # NULL
           /\ call.row.playlist_id = NULL)
       \/ (/\ call.row.mode = "playlist"
           /\ call.row.playlist_id # NULL
           /\ call.row.video_id = NULL)

\* C35 (SpecV): for every non-empty list of paths the manifest a builder
\* writes has exactly one line per path, in the order given: line i names
\* the absolute path of path i, none is left out, none comes twice.
C35_ManifestFollowsPaths ==
    (call.done /\ call.op \in {"_create_concat_file", "create_concat_file"})
    => LET lines == text_lines(call.text, <<>>)
       IN /\ Len(lines) = Len(call.paths)
          /\ \A i \in 1 .. Len(call.paths) :
                line_path(lines[i]) = abspath(call.paths[i])

\* A manifest written for a list of MaxPaths paths that holds the same path
\* twice, a name with a quote in it.
C35_Witness ==
    /\ call.done
    /\ call.op = "_create_concat_file"
    /\ Len(call.paths) = MaxPaths
    /\ call.paths[1] = call.paths[MaxPaths]
    /\ \E j \in 1 .. Len(call.paths[1]) : call.paths[1][j] = "'"
    /\ call.text # <<>>

\* C37 (SpecW): a session in status recovering eventually becomes running,
\* failed or stopped, also when the application is restarted while the
\* delayed restart is asleep.
C37_RecoveringEnds ==
    \A s \in SessionIds :
        (s \in Ids /\ sessions[s].status = "recovering")
            ~> (s \in Ids /\ sessions[s].status \in {"running", "failed", "stopped"})

====
